---------------------------- MODULE Spec2Model ----------------------------
(***************************************************************************)
(* Model of src/main.py: the POST /pipelines/parse handler parse_pipeline  *)
(* and the helper is_directed_acyclic_graph, together with the parts of    *)
(* networkx they call (DiGraph, add_node, add_edge and the Kahn-style      *)
(* topological_generations behind nx.is_directed_acyclic_graph).           *)
(*                                                                         *)
(* Spec     : one request, the handler run as one step (an async def with  *)
(*            no await is never suspended by the event loop).              *)
(* SpecRel  : the same with shorter node lists, for the properties that    *)
(*            compare the answer with the answers to rearranged inputs.    *)
(* SpecConc : two invocations whose lines interleave freely and which are  *)
(*            invoked again and again.                                     *)
(***************************************************************************)
EXTENDS Integers, Sequences, FiniteSets, TLC

VARIABLES
    pc,         \* per invocation: the line of src/main.py it is at
    pipeline,   \* per invocation: the parameter of parse_pipeline (line 64)
    num_nodes,  \* per invocation: local of parse_pipeline (line 68)
    num_edges,  \* per invocation: local of parse_pipeline (line 69)
    G,          \* per invocation: local of is_directed_acyclic_graph (line 45)
    is_dag,     \* per invocation: local of parse_pipeline (line 70)
    response    \* per invocation: what it returned (line 79) or raised (line 83)

vars == <<pc, pipeline, num_nodes, num_edges, G, is_dag, response>>

(***************************************************************************)
(* Bounds of the model.                                                    *)
(***************************************************************************)
MaxNodes == 2
MaxEdges == 3
RelMaxNodes == 1
RelMaxEdges == 3
ConcMaxNodes == 1
ConcMaxEdges == 1

\* Node identifiers (Node.id, Edge.source, Edge.target are str).
Ids == {"A", "B", "C"}
ConcIds == {"A", "B"}

\* The invocations that may be in progress at the same time.
Procs == {"w1", "w2"}

\* An unbound name / no value.
None == [none |-> TRUE]

SeqUpTo(S, n) == UNION {[1..k -> S] : k \in 0..n}

\* class Edge: only source and target reach the computation.
Edge(ids) == [source : ids, target : ids]

\* class Pipeline: nodes are kept by their id, the only field the code reads.
Pipeline(ids, maxNodes, maxEdges) ==
    [nodes : SeqUpTo(ids, maxNodes), edges : SeqUpTo(Edge(ids), maxEdges)]

Inputs == Pipeline(Ids, MaxNodes, MaxEdges)
RelInputs == Pipeline(Ids, RelMaxNodes, RelMaxEdges)
ConcInputs == Pipeline(ConcIds, ConcMaxNodes, ConcMaxEdges)

(***************************************************************************)
(* Python exceptions are values that propagate through the computation.    *)
(***************************************************************************)
Raise(name) == [exc |-> name]
Return(v) == [ret |-> v]
IsExc(x) == "exc" \in DOMAIN x

(***************************************************************************)
(* networkx.DiGraph: dicts keep insertion order, so the node dict is a     *)
(* sequence without repetition and each adjacency dict is a sequence too.  *)
(***************************************************************************)
DiGraph == [node |-> <<>>, succ |-> <<>>, pred |-> <<>>]

InSeq(x, s) == \E i \in 1..Len(s) : s[i] = x

\* dict[key] = {} : a key already present keeps its place.
DictSet(s, x) == IF InSeq(x, s) THEN s ELSE Append(s, x)

add_node(g, n) ==
    IF n \in DOMAIN g.succ
    THEN g
    ELSE [node |-> Append(g.node, n),
          succ |-> g.succ @@ (n :> <<>>),
          pred |-> g.pred @@ (n :> <<>>)]

\* A variant that does not create missing endpoints: the lookup of an
\* undeclared endpoint's adjacency dict raises KeyError.
add_edge_no_autocreate(g, u, v) ==
    IF u \in DOMAIN g.succ /\ v \in DOMAIN g.succ
    THEN [node |-> g.node,
          succ |-> [g.succ EXCEPT ![u] = DictSet(@, v)],
          pred |-> [g.pred EXCEPT ![v] = DictSet(@, u)]]
    ELSE Raise("KeyError")

\* A variant that appends to the predecessor dict without looking for the key,
\* as a list would: a repeated arc raises the in-degree of its target.
add_edge_multi(g, u, v) ==
    LET g2 == add_node(add_node(g, u), v)
    IN  [node |-> g2.node,
         succ |-> [g2.succ EXCEPT ![u] = DictSet(@, v)],
         pred |-> [g2.pred EXCEPT ![v] = Append(@, u)]]

\* A variant that drops an arc whose endpoints coincide.
add_edge_no_selfloop(g, u, v) ==
    LET g2 == add_node(add_node(g, u), v)
    IN  IF u = v THEN g2
        ELSE [node |-> g2.node,
              succ |-> [g2.succ EXCEPT ![u] = DictSet(@, v)],
              pred |-> [g2.pred EXCEPT ![v] = DictSet(@, u)]]

\* A variant that keeps only the latest successor of a node.
add_edge_overwrite(g, u, v) ==
    LET g2 == add_node(add_node(g, u), v)
    IN  [node |-> g2.node,
         succ |-> [g2.succ EXCEPT ![u] = <<v>>],
         pred |-> [w \in DOMAIN g2.pred |->
                     IF w = v THEN DictSet(SelectSeq(g2.pred[w], LAMBDA x : x # u), u)
                     ELSE SelectSeq(g2.pred[w], LAMBDA x : x # u)]]

add_edge(g, u, v) ==
    LET g2 == add_node(add_node(g, u), v)
    IN  [node |-> g2.node,
         succ |-> [g2.succ EXCEPT ![u] = DictSet(@, v)],
         pred |-> [g2.pred EXCEPT ![v] = DictSet(@, u)]]

(***************************************************************************)
(* nx.is_directed_acyclic_graph(G) = G.is_directed() and not has_cycle(G). *)
(* has_cycle drains topological_sort, which drains                         *)
(* topological_generations (Kahn's algorithm) and reports                  *)
(* NetworkXUnfeasible when vertices with positive in-degree remain.        *)
(***************************************************************************)
in_degree(g, v) == Len(g.pred[v])

RECURSIVE visit_children(_, _, _, _)
visit_children(children, i, indegree_map, zero_indegree) ==
    IF i > Len(children)
    THEN [indegree_map |-> indegree_map, zero_indegree |-> zero_indegree]
    ELSE LET child == children[i]
         IN  IF child \notin DOMAIN indegree_map
             THEN Raise("RuntimeError")
             ELSE IF indegree_map[child] - 1 = 0
                  THEN visit_children(children, i + 1,
                         [w \in DOMAIN indegree_map \ {child} |-> indegree_map[w]],
                         Append(zero_indegree, child))
                  ELSE visit_children(children, i + 1,
                         [indegree_map EXCEPT ![child] = @ - 1],
                         zero_indegree)

RECURSIVE visit_generation(_, _, _, _, _)
visit_generation(g, this_generation, i, indegree_map, zero_indegree) ==
    IF i > Len(this_generation)
    THEN [indegree_map |-> indegree_map, zero_indegree |-> zero_indegree]
    ELSE LET n == this_generation[i]
         IN  IF n \notin DOMAIN g.succ
             THEN Raise("RuntimeError")
             ELSE LET r == visit_children(g.succ[n], 1, indegree_map, zero_indegree)
                  IN  IF IsExc(r) THEN r
                      ELSE visit_generation(g, this_generation, i + 1,
                                            r.indegree_map, r.zero_indegree)

RECURSIVE generations(_, _, _)
generations(g, indegree_map, zero_indegree) ==
    IF zero_indegree = <<>>
    THEN IF DOMAIN indegree_map # {} THEN Raise("NetworkXUnfeasible") ELSE None
    ELSE LET r == visit_generation(g, zero_indegree, 1, indegree_map, <<>>)
         IN  IF IsExc(r) THEN r
             ELSE generations(g, r.indegree_map, r.zero_indegree)

\* A variant that starts the traversal from the first source vertex only.
topological_generations_first_source(g) ==
    generations(g,
        [v \in {w \in DOMAIN g.pred : in_degree(g, w) > 0} |-> in_degree(g, v)],
        LET sources == SelectSeq(g.node, LAMBDA v : in_degree(g, v) = 0)
        IN  IF sources = <<>> THEN <<>> ELSE <<sources[1]>>)

topological_generations(g) ==
    generations(g,
        [v \in {w \in DOMAIN g.pred : in_degree(g, w) > 0} |-> in_degree(g, v)],
        SelectSeq(g.node, LAMBDA v : in_degree(g, v) = 0))

\* try: topological_sort(G)  except NetworkXUnfeasible: return True
\* else: return False. Any other exception propagates.
has_cycle(g) ==
    LET r == topological_generations(g)
    IN  IF IsExc(r)
        THEN IF r.exc = "NetworkXUnfeasible" THEN Return(TRUE) ELSE r
        ELSE Return(FALSE)

nx_is_directed_acyclic_graph(g) ==
    IF IsExc(g) THEN g
    ELSE LET c == has_cycle(g)
         IN  IF IsExc(c) THEN c ELSE Return(~c.ret)

(***************************************************************************)
(* is_directed_acyclic_graph (src/main.py 40-53).                          *)
(***************************************************************************)
RECURSIVE add_nodes(_, _, _)
add_nodes(g, nodes, i) ==
    IF IsExc(g) \/ i > Len(nodes) THEN g
    ELSE add_nodes(add_node(g, nodes[i]), nodes, i + 1)

\* Variants of the loop of lines 50-51.
\* Looking the endpoints up instead of letting add_edge create them.
RECURSIVE add_edges_declared_only(_, _, _)
add_edges_declared_only(g, edges, i) ==
    IF IsExc(g) \/ i > Len(edges) THEN g
    ELSE add_edges_declared_only(
             add_edge_no_autocreate(g, edges[i].source, edges[i].target), edges, i + 1)

\* Assigning the successor instead of adding it.
RECURSIVE add_edges_overwrite(_, _, _)
add_edges_overwrite(g, edges, i) ==
    IF IsExc(g) \/ i > Len(edges) THEN g
    ELSE add_edges_overwrite(
             add_edge_overwrite(g, edges[i].source, edges[i].target), edges, i + 1)

\* Keeping every occurrence of a repeated arc among the predecessors.
RECURSIVE add_edges_multi(_, _, _)
add_edges_multi(g, edges, i) ==
    IF IsExc(g) \/ i > Len(edges) THEN g
    ELSE add_edges_multi(
             add_edge_multi(g, edges[i].source, edges[i].target), edges, i + 1)

\* Skipping edges whose source is their target.
RECURSIVE add_edges_no_selfloop(_, _, _)
add_edges_no_selfloop(g, edges, i) ==
    IF IsExc(g) \/ i > Len(edges) THEN g
    ELSE add_edges_no_selfloop(
             add_edge_no_selfloop(g, edges[i].source, edges[i].target), edges, i + 1)

RECURSIVE add_edges(_, _, _)
add_edges(g, edges, i) ==
    IF IsExc(g) \/ i > Len(edges) THEN g
    ELSE add_edges(add_edge(g, edges[i].source, edges[i].target), edges, i + 1)

\* A variant whose early return tests the node list.
is_dag_guard_on_nodes(nodes, edges) ==
    IF nodes = <<>> THEN Return(TRUE)
    ELSE nx_is_directed_acyclic_graph(add_edges(add_nodes(DiGraph, nodes, 1), edges, 1))

\* A variant whose early return answers False.
is_dag_empty_false(nodes, edges) ==
    IF edges = <<>> THEN Return(FALSE)
    ELSE nx_is_directed_acyclic_graph(add_edges(add_nodes(DiGraph, nodes, 1), edges, 1))

is_directed_acyclic_graph(nodes, edges) ==
    IF edges = <<>> THEN Return(TRUE)
    ELSE nx_is_directed_acyclic_graph(add_edges(add_nodes(DiGraph, nodes, 1), edges, 1))

(***************************************************************************)
(* parse_pipeline (src/main.py 63-83).                                     *)
(***************************************************************************)
PipelineResponse(n, e, d) ==
    [status |-> 200, num_nodes |-> n, num_edges |-> e, is_dag |-> d]

HTTPException(e) == [status |-> 400, detail |-> e.exc]

\* A variant counting the arcs of the graph instead of the supplied edges.
count_edges_distinct(pl) == Cardinality({pl.edges[i] : i \in 1..Len(pl.edges)})

count_edges(pl) == Len(pl.edges)

count_nodes(pl) == Len(pl.nodes)

parse_pipeline(pl) ==
    LET d == is_directed_acyclic_graph(pl.nodes, pl.edges)
    IN  IF IsExc(d) THEN HTTPException(d)
        ELSE PipelineResponse(count_nodes(pl), count_edges(pl), d.ret)

(***************************************************************************)
(* The handler as one step: Spec.                                          *)
(***************************************************************************)
Init ==
    /\ \E pl \in Inputs :
          pipeline = [p \in Procs |-> IF p = "w1" THEN pl ELSE None]
    /\ pc = [p \in Procs |-> IF p = "w1" THEN "line65" ELSE "idle"]
    /\ num_nodes = [p \in Procs |-> None]
    /\ num_edges = [p \in Procs |-> None]
    /\ G = [p \in Procs |-> None]
    /\ is_dag = [p \in Procs |-> None]
    /\ response = [p \in Procs |-> None]

InitRel ==
    /\ \E pl \in RelInputs :
          pipeline = [p \in Procs |-> IF p = "w1" THEN pl ELSE None]
    /\ pc = [p \in Procs |-> IF p = "w1" THEN "line65" ELSE "idle"]
    /\ num_nodes = [p \in Procs |-> None]
    /\ num_edges = [p \in Procs |-> None]
    /\ G = [p \in Procs |-> None]
    /\ is_dag = [p \in Procs |-> None]
    /\ response = [p \in Procs |-> None]

Handle(p) ==
    /\ pc[p] = "line65"
    /\ response' = [response EXCEPT ![p] = parse_pipeline(pipeline[p])]
    /\ pc' = [pc EXCEPT ![p] = "returned"]
    /\ UNCHANGED <<pipeline, num_nodes, num_edges, G, is_dag>>

Next == \E p \in Procs : Handle(p)

Spec == Init /\ [][Next]_vars

SpecRel == InitRel /\ [][Next]_vars

(***************************************************************************)
(* The handler line by line, two invocations at once: SpecConc.            *)
(***************************************************************************)
\* A variant of line 45 that starts from the graph another invocation holds.
StaleGraph(p) ==
    IF \E q \in Procs \ {p} : G[q] # None
    THEN G[CHOOSE q \in Procs \ {p} : G[q] # None]
    ELSE DiGraph

\* Line 45: G = nx.DiGraph(), a new object bound in the frame of p.
FreshGraph(p) == DiGraph

InitConc ==
    /\ pc = [p \in Procs |-> "idle"]
    /\ pipeline = [p \in Procs |-> None]
    /\ num_nodes = [p \in Procs |-> None]
    /\ num_edges = [p \in Procs |-> None]
    /\ G = [p \in Procs |-> None]
    /\ is_dag = [p \in Procs |-> None]
    /\ response = [p \in Procs |-> None]

\* Leaving the handler: the frame's locals are gone.
Leave(p, r) ==
    /\ response' = [response EXCEPT ![p] = r]
    /\ pc' = [pc EXCEPT ![p] = "returned"]
    /\ num_nodes' = [num_nodes EXCEPT ![p] = None]
    /\ num_edges' = [num_edges EXCEPT ![p] = None]
    /\ G' = [G EXCEPT ![p] = None]
    /\ is_dag' = [is_dag EXCEPT ![p] = None]
    /\ UNCHANGED pipeline

\* Lines 64-69: a request arrives, num_nodes and num_edges are bound.
Call(p) ==
    /\ pc[p] \in {"idle", "returned"}
    /\ \E pl \in ConcInputs :
          /\ pipeline' = [pipeline EXCEPT ![p] = pl]
          /\ num_nodes' = [num_nodes EXCEPT ![p] = count_nodes(pl)]
          /\ num_edges' = [num_edges EXCEPT ![p] = count_edges(pl)]
    /\ response' = [response EXCEPT ![p] = None]
    /\ pc' = [pc EXCEPT ![p] = "line42"]
    /\ UNCHANGED <<G, is_dag>>

\* Lines 42-45: the early return, or the new graph.
Line42(p) ==
    /\ pc[p] = "line42"
    /\ IF pipeline[p].edges = <<>>
       THEN /\ is_dag' = [is_dag EXCEPT ![p] = TRUE]
            /\ pc' = [pc EXCEPT ![p] = "line72"]
            /\ UNCHANGED G
       ELSE /\ G' = [G EXCEPT ![p] = FreshGraph(p)]
            /\ pc' = [pc EXCEPT ![p] = "line47"]
            /\ UNCHANGED is_dag
    /\ UNCHANGED <<pipeline, num_nodes, num_edges, response>>

\* Lines 47-48: for node in nodes: G.add_node(node.id).
Line47(p) ==
    /\ pc[p] = "line47"
    /\ G' = [G EXCEPT ![p] = add_nodes(@, pipeline[p].nodes, 1)]
    /\ pc' = [pc EXCEPT ![p] = "line50"]
    /\ UNCHANGED <<pipeline, num_nodes, num_edges, is_dag, response>>

\* Lines 50-51: for edge in edges: G.add_edge(edge.source, edge.target).
Line50(p) ==
    /\ pc[p] = "line50"
    /\ LET g == add_edges(G[p], pipeline[p].edges, 1)
       IN  IF IsExc(g)
           THEN Leave(p, HTTPException(g))
           ELSE /\ G' = [G EXCEPT ![p] = g]
                /\ pc' = [pc EXCEPT ![p] = "line53"]
                /\ UNCHANGED <<pipeline, num_nodes, num_edges, is_dag, response>>

\* Line 53 and the assignment of line 70.
Line53(p) ==
    /\ pc[p] = "line53"
    /\ LET d == nx_is_directed_acyclic_graph(G[p])
       IN  IF IsExc(d)
           THEN Leave(p, HTTPException(d))
           ELSE /\ is_dag' = [is_dag EXCEPT ![p] = d.ret]
                /\ pc' = [pc EXCEPT ![p] = "line72"]
                /\ UNCHANGED <<pipeline, num_nodes, num_edges, G, response>>

\* Lines 72-79: the response is built and returned.
Line72(p) ==
    /\ pc[p] = "line72"
    /\ Leave(p, PipelineResponse(num_nodes[p], num_edges[p], is_dag[p]))

NextConc ==
    \E p \in Procs :
        \/ Call(p)
        \/ Line42(p)
        \/ Line47(p)
        \/ Line50(p)
        \/ Line53(p)
        \/ Line72(p)

SpecConc == InitConc /\ [][NextConc]_vars

(***************************************************************************)
(* Properties.                                                             *)
(***************************************************************************)
Done(p) == pc[p] = "returned"
Ok(p) == Done(p) /\ response[p].status = 200

Pl(nodes, edges) == [nodes |-> nodes, edges |-> edges]
EdgeOf(u, v) == [source |-> u, target |-> v]
Range(s) == {s[i] : i \in DOMAIN s}

\* The graph of a pipeline, as sets: declared ids and every edge endpoint.
Vertices(pl) ==
    Range(pl.nodes) \cup {e.source : e \in Range(pl.edges)}
                    \cup {e.target : e \in Range(pl.edges)}
Arcs(pl) == {<<e.source, e.target>> : e \in Range(pl.edges)}

\* A non-empty path of arcs returning to its starting vertex. A shortest one
\* repeats no vertex, so it has at most Cardinality(V) arcs.
HasDirectedCycle(V, A) ==
    \E k \in 1..Cardinality(V) :
        \E path \in [1..(k + 1) -> V] :
            /\ path[1] = path[k + 1]
            /\ \A i \in 1..k : <<path[i], path[i + 1]>> \in A

\* The reorderings of a list of n elements, for every length an input can have.
Orders ==
    [n \in 0..(RelMaxEdges + 1) |->
        {f \in [1..n -> 1..n] : \A i, j \in 1..n : f[i] = f[j] => i = j}]
Permuted(s, f) == [i \in 1..Len(s) |-> s[f[i]]]
InsertAt(s, k, x) == SubSeq(s, 1, k) \o <<x>> \o SubSeq(s, k + 1, Len(s))

\* C1: the returned is_dag is true exactly when the graph on the declared ids
\* and all edge endpoints, with the supplied (source, target) arcs, has no
\* directed cycle.
C1_IsDagIffNoDirectedCycle ==
    \A p \in Procs :
        Done(p) =>
            /\ response[p].status = 200
            /\ response[p].is_dag =
                 ~HasDirectedCycle(Vertices(pipeline[p]), Arcs(pipeline[p]))

\* A cycle among undeclared vertices, in a component apart from the one
\* declared vertex, was answered is_dag = false.
C1_Witness ==
    \E p \in Procs :
        /\ Ok(p)
        /\ pipeline[p].nodes = <<"A">>
        /\ Range(pipeline[p].edges) =
             {EdgeOf("B", "C"), EdgeOf("C", "B")}
        /\ response[p].is_dag = FALSE

\* C2 (as stated): num_nodes is the number of distinct declared ids.
C2_NumNodesCountsDistinctIds ==
    \A p \in Procs :
        Ok(p) => response[p].num_nodes = Cardinality(Range(pipeline[p].nodes))

\* C3: num_edges is the number of positions of the supplied edge list, so a
\* repeated pair counts at every occurrence and undeclared endpoints count.
C3_NumEdgesIsListLength ==
    \A p \in Procs :
        Done(p) =>
            /\ response[p].status = 200
            /\ response[p].num_edges = Cardinality(DOMAIN pipeline[p].edges)

\* A repeated pair with an undeclared endpoint was counted at each occurrence.
C3_Witness ==
    \E p \in Procs :
        /\ Ok(p)
        /\ pipeline[p].nodes = <<"A">>
        /\ pipeline[p].edges = <<EdgeOf("A", "B"), EdgeOf("A", "B"), EdgeOf("C", "B")>>
        /\ response[p].num_edges = 3

\* C4: every well-typed input is answered with a (num_nodes, num_edges, is_dag)
\* result, never with the 400 of the except branch, undeclared endpoints
\* included.
C4_NeverErrorOutcome ==
    \A p \in Procs :
        Done(p) =>
            /\ response[p].status = 200
            /\ response[p].num_nodes \in Nat
            /\ response[p].num_edges \in Nat
            /\ response[p].is_dag \in BOOLEAN

\* An input whose edges use only undeclared endpoints was answered normally.
C4_Witness ==
    \E p \in Procs :
        /\ Ok(p)
        /\ pipeline[p].edges # <<>>
        /\ \A e \in Range(pipeline[p].edges) :
             e.source \notin Range(pipeline[p].nodes) /\ e.target \notin Range(pipeline[p].nodes)
        /\ pipeline[p].nodes # <<>>

\* C5: every permutation of the edge list gets the same is_dag and num_edges.
C5_EdgeOrderIndependent ==
    \A p \in Procs :
        Done(p) =>
            \A f \in Orders[Len(pipeline[p].edges)] :
                LET r == parse_pipeline(Pl(pipeline[p].nodes, Permuted(pipeline[p].edges, f)))
                IN  /\ response[p].status = 200
                    /\ r.status = 200
                    /\ r.is_dag = response[p].is_dag
                    /\ r.num_edges = response[p].num_edges

\* A list of three different edges, which has six different orders, was answered.
C5_Witness ==
    \E p \in Procs :
        /\ Ok(p)
        /\ Len(pipeline[p].edges) = 3
        /\ Cardinality(Range(pipeline[p].edges)) = 3
        /\ response[p].is_dag = FALSE
        /\ \A e \in Range(pipeline[p].edges) : e.source # e.target

\* C6: one more occurrence of a pair already in the edge list leaves is_dag
\* unchanged and raises num_edges by exactly one.
C6_ParallelEdge ==
    \A p \in Procs :
        Done(p) =>
            \A i \in DOMAIN pipeline[p].edges :
                LET r == parse_pipeline(Pl(pipeline[p].nodes,
                                           Append(pipeline[p].edges, pipeline[p].edges[i])))
                IN  /\ response[p].status = 200
                    /\ r.status = 200
                    /\ r.is_dag = response[p].is_dag
                    /\ r.num_edges = response[p].num_edges + 1

\* An acyclic input with edges, to which an occurrence can be appended.
C6_Witness ==
    \E p \in Procs :
        /\ Ok(p)
        /\ Len(pipeline[p].edges) = 2
        /\ response[p].is_dag = TRUE

\* C7: with an edge A->B, A # B, in the list, adding B->A (at any position)
\* gives is_dag = false; and a list holding both A->B and B->A was answered
\* is_dag = false.
C7_ReverseEdge ==
    \A p \in Procs :
        Done(p) =>
            /\ response[p].status = 200
            /\ \A i \in DOMAIN pipeline[p].edges :
                 LET e == pipeline[p].edges[i]
                 IN  e.source # e.target =>
                       /\ \A k \in 0..Len(pipeline[p].edges) :
                            LET r == parse_pipeline(Pl(pipeline[p].nodes,
                                       InsertAt(pipeline[p].edges, k, EdgeOf(e.target, e.source))))
                            IN  r.status = 200 /\ r.is_dag = FALSE
                       /\ EdgeOf(e.target, e.source) \in Range(pipeline[p].edges)
                            => response[p].is_dag = FALSE

\* An input that was answered is_dag = true and has an edge between two
\* distinct vertices: adding the reverse edge flips the answer.
C7_Witness ==
    \E p \in Procs :
        /\ Ok(p)
        /\ response[p].is_dag = TRUE
        /\ \E e \in Range(pipeline[p].edges) : e.source # e.target

\* C8: an edge list with a self-loop is answered is_dag = false, whether or not
\* the looping id is declared and whatever the other edges are.
C8_SelfLoop ==
    \A p \in Procs :
        Done(p) =>
            ((\E e \in Range(pipeline[p].edges) : e.source = e.target)
                => response[p].status = 200 /\ response[p].is_dag = FALSE)

\* A self-loop on an undeclared id, beside acyclic edges, was answered false.
C8_Witness ==
    \E p \in Procs :
        /\ Ok(p)
        /\ pipeline[p].nodes = <<"A", "B">>
        /\ pipeline[p].edges = <<EdgeOf("A", "B"), EdgeOf("C", "C")>>
        /\ response[p].is_dag = FALSE

\* C9: an empty edge list is answered is_dag = true and num_edges = 0 for every
\* node list; with the node list empty too the result is (0, 0, true).
C9_EmptyEdgeList ==
    \A p \in Procs :
        (Done(p) /\ pipeline[p].edges = <<>>) =>
            /\ response[p].status = 200
            /\ response[p].is_dag = TRUE
            /\ response[p].num_edges = 0
            /\ pipeline[p].nodes = <<>> =>
                 response[p] = PipelineResponse(0, 0, TRUE)

\* A node list with a repeated id and no edges was answered.
C9_Witness ==
    \E p \in Procs :
        /\ Ok(p)
        /\ pipeline[p].nodes = <<"A", "A">>
        /\ pipeline[p].edges = <<>>
        /\ response[p].is_dag = TRUE

\* C10: whatever the interleaving with other invocations and whatever was
\* invoked before, an invocation returns the result its input yields alone.
C10_Independent ==
    \A p \in Procs :
        Done(p) => response[p] = parse_pipeline(pipeline[p])

\* One invocation returned is_dag = true for A->B while the other, at line 53,
\* holds a graph with the arc B->A.
C10_Witness ==
    /\ Ok("w1")
    /\ pipeline["w1"].edges = <<EdgeOf("A", "B")>>
    /\ response["w1"].is_dag = TRUE
    /\ pc["w2"] = "line53"
    /\ pipeline["w2"].edges = <<EdgeOf("B", "A")>>
    /\ G["w2"].succ["B"] = <<"A">>

=============================================================================
